---- MODULE Spec2Model ----
(***************************************************************************)
(* Response decoding of rawr (src/responses/listing.rs).                   *)
(*                                                                         *)
(* The file declares the response types and derives their decoders with    *)
(* #[derive(Deserialize)].  A JSON document is decoded into one of the     *)
(* three response types (Listing, SubredditAbout, CommentResponse).  The   *)
(* model holds the JSON document, the requested type and the outcome of    *)
(* the decode, and computes the decode as the derived decoders do: the     *)
(* members of an object are visited in document order, the first member    *)
(* that fails ends the decode, and the members still missing afterwards    *)
(* are settled in declaration order.                                       *)
(***************************************************************************)
EXTENDS Integers, Sequences, FiniteSets, TLC

VARIABLES
    json,     \* the JSON document handed to the decoder
    target,   \* the response type the caller asks for
    result,   \* the outcome of the decode (meaningful once pc = "done")
    pc        \* "start" before the decode, "done" after it

vars == <<json, target, result, pc>>

(***************************************************************************)
(* Bounds of the model.                                                    *)
(***************************************************************************)
\* the longest `children` array of a listing
MaxChildren == 3
\* the longest array decoded as a comment response
MaxPair == 3

(***************************************************************************)
(* JSON values (serde_json::Value).  A number keeps whether it was written *)
(* as an integer or as a float; an object keeps the order of its members,  *)
(* which are distinct.                                                     *)
(***************************************************************************)
JNull == [t |-> "null"]
JBool(b) == [t |-> "bool", b |-> b]
JInt(n) == [t |-> "num", n |-> n, float |-> FALSE]
JFloat(n) == [t |-> "num", n |-> n, float |-> TRUE]
JStr(s) == [t |-> "str", s |-> s]
JArr(a) == [t |-> "arr", a |-> a]
JObj(k, v) == [t |-> "obj", k |-> k, v |-> v]

Range(s) == {s[i] : i \in 1..Len(s)}
Min(S) == CHOOSE x \in S : \A y \in S : x <= y

\* the object `o` has a member named `key`
Has(o, key) == o.t = "obj" /\ key \in DOMAIN o.v

(***************************************************************************)
(* Rust values.  Option<T> is None or Some(v); a decode returns Ok(v) or   *)
(* Err(kind, detail), the kinds being those of serde::de::Error.           *)
(***************************************************************************)
None == [some |-> FALSE]
Some(v) == [some |-> TRUE, v |-> v]
Ok(v) == [ok |-> TRUE, v |-> v]
Err(k, f) == [ok |-> FALSE, k |-> k, f |-> f]
Pending == [ok |-> FALSE, k |-> "pending", f |-> ""]

(***************************************************************************)
(* Type descriptors: the types the field declarations name.                *)
(***************************************************************************)
String == [c |-> "String"]
bool == [c |-> "bool"]
u64 == [c |-> "u64"]
i64 == [c |-> "i64"]
Value == [c |-> "Value"]
Option(T) == [c |-> "Option", a |-> T]
Vec(T) == [c |-> "Vec", a |-> T]
Struct(name, fields) == [c |-> "Struct", name |-> name, fields |-> fields]
Tuple2(A, B) == [c |-> "Tuple2", a |-> A, b |-> B]

FieldNames(fields) == {fields[i][1] : i \in 1..Len(fields)}
FieldType(fields, name) ==
    LET i == CHOOSE i \in 1..Len(fields) : fields[i][1] = name IN fields[i][2]

(***************************************************************************)
(* The declared types.                                                     *)
(***************************************************************************)
\* responses::BasicThing<T>: the {kind, data} wrapper of every API object
BasicThing(T) == Struct("BasicThing", << <<"kind", String>>, <<"data", T>> >>)

\* struct SubredditAboutData
SubredditAboutDataFields ==
    <<
    <<"subscribers", u64>>,
    <<"accounts_active", u64>>,
    <<"subreddit_type", String>>,
    <<"title", String>>,
    <<"url", String>>,
    <<"wiki_enabled", bool>>,
    <<"over18", bool>>,
    <<"public_description", String>>,
    <<"public_description_html", String>>,
    <<"public_traffic", bool>>,
    <<"name", String>>,
    <<"id", String>>,
    <<"display_name", String>>,
    <<"description", String>>,
    <<"description_html", String>>,
    <<"created", i64>>,
    <<"created_utc", i64>>,
    <<"quarantine", bool>>,
    <<"submission_type", String>>,
    <<"lang", String>>,
    <<"submit_text", String>>,
    <<"submit_text_html", String>>,
    <<"submit_text_label", Option(String)>>,
    <<"submit_link_label", Option(String)>>,
    <<"comment_score_hide_mins", u64>>
    >>

SubredditAboutData == Struct("SubredditAboutData", SubredditAboutDataFields)

\* struct ListingData<T>
ListingData(T) ==
    Struct("ListingData",
        <<
        <<"modhash", Option(String)>>,
        <<"before", Option(String)>>,
        <<"after", Option(String)>>,
        <<"children", Vec(BasicThing(T))>>
        >>)

\* struct Submission
SubmissionFields ==
    <<
    <<"domain", String>>,
    <<"banned_by", Option(String)>>,
    <<"subreddit", String>>,
    <<"selftext_html", Option(String)>>,
    <<"selftext", String>>,
    <<"likes", Option(bool)>>,
    <<"suggested_sort", Option(String)>>,
    <<"link_flair_text", Option(String)>>,
    <<"id", String>>,
    <<"gilded", u64>>,
    <<"archived", bool>>,
    <<"clicked", bool>>,
    <<"author", String>>,
    <<"score", i64>>,
    <<"approved_by", Option(String)>>,
    <<"over_18", bool>>,
    <<"hidden", bool>>,
    <<"num_comments", u64>>,
    <<"thumbnail", String>>,
    <<"subreddit_id", String>>,
    <<"hide_score", bool>>,
    <<"edited", Value>>,
    <<"link_flair_css_class", Option(String)>>,
    <<"author_flair_css_class", Option(String)>>,
    <<"downs", i64>>,
    <<"ups", i64>>,
    <<"saved", bool>>,
    <<"removal_reason", Option(String)>>,
    <<"stickied", bool>>,
    <<"is_self", bool>>,
    <<"permalink", String>>,
    <<"locked", bool>>,
    <<"name", String>>,
    <<"created", i64>>,
    <<"url", Option(String)>>,
    <<"author_flair_text", Option(String)>>,
    <<"quarantine", bool>>,
    <<"title", String>>,
    <<"created_utc", i64>>,
    <<"distinguished", Option(String)>>,
    <<"visited", bool>>,
    <<"num_reports", Option(u64)>>
    >>

Submission == Struct("Submission", SubmissionFields)

\* the comment record of responses::comment, a leaf record
Comment == Struct("Comment", << <<"id", String>>, <<"body", String>> >>)

\* pub type Listing = BasicThing<ListingData<Submission>>
Listing == BasicThing(ListingData(Submission))

\* responses::comment::CommentListing, the listing of a post's comments
CommentListing == BasicThing(ListingData(Comment))

\* pub type CommentResponse = (Listing, CommentListing)
CommentResponse == Tuple2(Listing, CommentListing)

\* pub type SubredditAbout = BasicThing<SubredditAboutData>
SubredditAbout == BasicThing(SubredditAboutData)

(***************************************************************************)
(* The derived decoders.                                                   *)
(***************************************************************************)
RECURSIVE Decode(_, _)
RECURSIVE visit_seq(_, _, _, _)

\* a String field takes a JSON string and nothing else
deserialize_string(j) ==
    IF j.t = "str" THEN Ok(j.s) ELSE Err("invalid_type", "a string")

\* a bool field takes a JSON boolean and nothing else
deserialize_bool(j) ==
    IF j.t = "bool" THEN Ok(j.b) ELSE Err("invalid_type", "a boolean")

\* a u64 field takes a non-negative JSON integer (a negative integer is an
\* invalid value, a float or any other JSON value an invalid type)
deserialize_u64(j) ==
    IF j.t = "num" /\ ~j.float
    THEN IF j.n >= 0 THEN Ok(j.n) ELSE Err("invalid_value", "u64")
    ELSE Err("invalid_type", "u64")

\* an i64 field takes a JSON integer
deserialize_i64(j) ==
    IF j.t = "num" /\ ~j.float THEN Ok(j.n) ELSE Err("invalid_type", "i64")

\* deserialize_value, were it to take only `false` and numbers
deserialize_value_strict(j) ==
    IF (j.t = "bool" /\ ~j.b) \/ j.t = "num" THEN Ok(j)
    ELSE Err("invalid_type", "false or a timestamp")

\* deserialize_value, were it to read a boolean as the timestamp 0 or 1
deserialize_value_coercing(j) ==
    IF j.t = "bool" /\ j.b THEN Ok(JInt(1)) ELSE Ok(j)

\* a field of type serde_json::Value takes any JSON value and keeps it as it is
deserialize_value(j) == Ok(j)

\* an Option<T> field: null is None, anything else is Some of T's decode
deserialize_option(T, j) ==
    IF j.t = "null" THEN Ok(None)
    ELSE LET r == Decode(T, j) IN IF r.ok THEN Ok(Some(r.v)) ELSE r

\* visit_seq, were it to put each element in front of the ones before it
RECURSIVE visit_seq_reversed(_, _, _, _)
visit_seq_reversed(T, a, i, acc) ==
    IF i > Len(a) THEN Ok(acc)
    ELSE LET r == Decode(T, a[i])
         IN IF r.ok THEN visit_seq_reversed(T, a, i + 1, <<r.v>> \o acc) ELSE r

\* visit_seq, were it to leave out the elements that fail to decode
RECURSIVE visit_seq_skipping(_, _, _, _)
visit_seq_skipping(T, a, i, acc) ==
    IF i > Len(a) THEN Ok(acc)
    ELSE LET r == Decode(T, a[i])
         IN visit_seq_skipping(T, a, i + 1, IF r.ok THEN Append(acc, r.v) ELSE acc)

\* the elements of an array from the i-th on, decoded in order onto acc;
\* the first element that fails ends the decode with its error
visit_seq(T, a, i, acc) ==
    IF i > Len(a) THEN Ok(acc)
    ELSE LET r == Decode(T, a[i])
         IN IF r.ok THEN visit_seq(T, a, i + 1, Append(acc, r.v)) ELSE r

\* a Vec<T> field takes a JSON array
deserialize_seq(T, j) ==
    IF j.t = "arr" THEN visit_seq(T, j.a, 1, <<>>)
    ELSE Err("invalid_type", "a sequence")

\* missing_field, were a missing String to default to the empty string
missing_field_string_default(T, name) ==
    IF T.c = "Option" THEN Ok(None)
    ELSE IF T.c = "String" THEN Ok("")
    ELSE Err("missing_field", name)

\* missing_field, were a missing number or boolean to default to 0 or false
missing_field_scalar_default(T, name) ==
    IF T.c = "Option" THEN Ok(None)
    ELSE IF T.c \in {"u64", "i64"} THEN Ok(0)
    ELSE IF T.c = "bool" THEN Ok(FALSE)
    ELSE Err("missing_field", name)

\* missing_field, were a missing Vec to default to the empty sequence
missing_field_vec_default(T, name) ==
    IF T.c = "Option" THEN Ok(None)
    ELSE IF T.c = "Vec" THEN Ok(<<>>)
    ELSE Err("missing_field", name)

\* a field that the object does not hold: None for an Option, else an error
missing_field(T, name) ==
    IF T.c = "Option" THEN Ok(None) ELSE Err("missing_field", name)

\* the members of object o, visited in document order: a member that names
\* no field is skipped, the first member that fails to decode ends the decode
\* with its error; the fields the object does not hold are settled afterwards,
\* in declaration order
visit_map(fields, o) ==
    LET names == FieldNames(fields)
        seen == [i \in {i \in 1..Len(o.k) : o.k[i] \in names} |->
                    Decode(FieldType(fields, o.k[i]), o.v[o.k[i]])]
        failed == {i \in DOMAIN seen : ~seen[i].ok}
        absent == {i \in 1..Len(fields) : fields[i][1] \notin DOMAIN o.v}
        settled == [i \in absent |-> missing_field(fields[i][2], fields[i][1])]
        unsettled == {i \in absent : ~settled[i].ok}
        at(n) == CHOOSE i \in 1..Len(o.k) : o.k[i] = n
        decl(n) == CHOOSE i \in 1..Len(fields) : fields[i][1] = n
    IN IF failed # {} THEN seen[Min(failed)]
       ELSE IF unsettled # {} THEN settled[Min(unsettled)]
       ELSE Ok([n \in names |->
                 IF n \in DOMAIN o.v THEN seen[at(n)].v ELSE settled[decl(n)].v])

\* a struct takes a JSON object (the documents of the model hold no array
\* where a struct is expected)
deserialize_struct(T, j) ==
    IF j.t = "obj" THEN visit_map(T.fields, j)
    ELSE Err("invalid_type", T.name)

\* deserialize_tuple, were it to return the first listing alone when the
\* second one fails
deserialize_tuple_partial(T, j) ==
    IF j.t # "arr" THEN Err("invalid_type", "a tuple of size 2")
    ELSE IF Len(j.a) < 1 THEN Err("invalid_length", "a tuple of size 2")
    ELSE LET ra == Decode(T.a, j.a[1])
         IN IF ~ra.ok THEN ra
            ELSE IF Len(j.a) < 2 THEN Err("invalid_length", "a tuple of size 2")
            ELSE LET rb == Decode(T.b, j.a[2])
                 IN IF ~rb.ok THEN Ok(<<ra.v>>)
                    ELSE IF Len(j.a) > 2 THEN Err("invalid_length", "a tuple of size 2")
                    ELSE Ok(<<ra.v, rb.v>>)

\* a pair (A, B) takes a JSON array of exactly two elements
deserialize_tuple(T, j) ==
    IF j.t # "arr" THEN Err("invalid_type", "a tuple of size 2")
    ELSE IF Len(j.a) < 1 THEN Err("invalid_length", "a tuple of size 2")
    ELSE LET ra == Decode(T.a, j.a[1])
         IN IF ~ra.ok THEN ra
            ELSE IF Len(j.a) < 2 THEN Err("invalid_length", "a tuple of size 2")
            ELSE LET rb == Decode(T.b, j.a[2])
                 IN IF ~rb.ok THEN rb
                    ELSE IF Len(j.a) > 2 THEN Err("invalid_length", "a tuple of size 2")
                    ELSE Ok(<<ra.v, rb.v>>)

Decode(T, j) ==
    CASE T.c = "String" -> deserialize_string(j)
      [] T.c = "bool" -> deserialize_bool(j)
      [] T.c = "u64" -> deserialize_u64(j)
      [] T.c = "i64" -> deserialize_i64(j)
      [] T.c = "Value" -> deserialize_value(j)
      [] T.c = "Option" -> deserialize_option(T.a, j)
      [] T.c = "Vec" -> deserialize_seq(T.a, j)
      [] T.c = "Struct" -> deserialize_struct(T, j)
      [] T.c = "Tuple2" -> deserialize_tuple(T, j)

\* a document decoded as Submission
DecodeSubmission(j) == Decode(Submission, j)

\* DecodeListing, were it to require the kind "Listing"
DecodeListingKindChecked(j) ==
    IF j.t = "obj" /\ "kind" \in DOMAIN j.v /\ j.v["kind"] # JStr("Listing")
    THEN Err("invalid_value", "kind")
    ELSE Decode(Listing, j)

\* DecodeListing, were it to drop the `after` cursor of an empty page
DecodeListingEndOfPages(j) ==
    LET r == Decode(Listing, j)
    IN IF r.ok /\ r.v["data"]["children"] = <<>>
       THEN Ok([r.v EXCEPT !["data"] = [@ EXCEPT !["after"] = None]])
       ELSE r

\* a document decoded as Listing
DecodeListing(j) == Decode(Listing, j)

\* a document decoded as SubredditAbout
DecodeSubredditAbout(j) == Decode(SubredditAbout, j)

\* a document decoded as CommentResponse
DecodeCommentResponse(j) == Decode(CommentResponse, j)

(***************************************************************************)
(* The documents the model decodes.                                        *)
(***************************************************************************)
\* object o without the member `key`
Without(o, key) ==
    JObj(SelectSeq(o.k, LAMBDA x : x # key),
         [n \in (DOMAIN o.v) \ {key} |-> o.v[n]])

\* object o with the member `key` set to val (appended when o does not hold it)
With(o, key, val) ==
    JObj(IF key \in DOMAIN o.v THEN o.k ELSE Append(o.k, key),
         [n \in (DOMAIN o.v) \cup {key} |-> IF n = key THEN val ELSE o.v[n]])

\* object o with its members in the opposite order
Reversed(o) == JObj([i \in 1..Len(o.k) |-> o.k[Len(o.k) + 1 - i]], o.v)

EmptyObj == JObj(<<>>, <<>>)

\* the JSON values a member is set to
Values ==
    <<JNull, JBool(TRUE), JBool(FALSE), JInt(0), JInt(1609459200), JInt(-1),
      JFloat(1609459200), JStr(""), JStr("1609459200"), JStr("t3_abc"),
      JArr(<<>>), EmptyObj>>

\* a value the type T accepts
Sample(T) ==
    CASE T.c = "String" -> JStr("s")
      [] T.c = "bool" -> JBool(TRUE)
      [] T.c = "u64" -> JInt(1)
      [] T.c = "i64" -> JInt(1)
      [] T.c = "Value" -> JBool(FALSE)
      [] T.c = "Option" -> JNull

\* an object holding every declared field, in declaration order
BaseObj(fields) ==
    JObj([i \in 1..Len(fields) |-> fields[i][1]],
         [n \in FieldNames(fields) |-> Sample(FieldType(fields, n))])

\* base with member f dropped (i = 0) or set to the i-th of Values
Perturbed(base, f, i) ==
    IF i = 0 THEN Without(base, f) ELSE With(base, f, Values[i])

\* the value of a member that the object is to lack
Absent == [t |-> "absent"]

\* the object {members...} built from a sequence of <<key, value>> pairs,
\* a pair whose value is "absent" being left out
RECURSIVE ObjOf(_)
ObjOf(pairs) ==
    IF pairs = <<>> THEN EmptyObj
    ELSE LET o == ObjOf(SubSeq(pairs, 1, Len(pairs) - 1))
             p == pairs[Len(pairs)]
         IN IF p[2] = Absent THEN o ELSE With(o, p[1], p[2])

Thing(kind, data) == ObjOf(<< <<"kind", kind>>, <<"data", data>> >>)

ListingDataDoc(modhash, before, after, children) ==
    ObjOf(<< <<"modhash", modhash>>, <<"before", before>>,
             <<"after", after>>, <<"children", children>> >>)

SubmissionDoc(id) == With(BaseObj(SubmissionFields), "id", JStr(id))
CommentDoc(id) == With(BaseObj(Comment.fields), "id", JStr(id))
AboutDoc == BaseObj(SubredditAboutDataFields)

\* the children a listing is built from: two posts, an envelope without
\* `data`, and a post whose `gilded` is a string
ChildDocs ==
    <<Thing(JStr("t3"), SubmissionDoc("a")),
      Thing(JStr("t3"), SubmissionDoc("b")),
      Thing(JStr("t3"), Absent),
      Thing(JStr("t3"), With(SubmissionDoc("c"), "gilded", JStr("x")))>>

ChildSeqs == UNION {[1..n -> 1..Len(ChildDocs)] : n \in 0..MaxChildren}

ChildrenOf(cs) == JArr([i \in 1..Len(cs) |-> ChildDocs[cs[i]]])

KindValues == <<Absent, JStr("Listing"), JStr("t3"), JStr("t5"), JStr(""), JInt(5)>>
ModhashValues == <<Absent, JStr("mh")>>
BeforeValues == <<JNull, JStr("t3_b")>>
AfterValues == <<Absent, JNull, JStr(""), JStr("t3_abc"), JInt(5)>>

\* the listings of a comment response: a post listing, a comment listing,
\* and each of them with a fault
PairDocs ==
    <<Thing(JStr("Listing"),
            ListingDataDoc(Absent, JNull, JNull, ChildrenOf(<<1>>))),
      Thing(JStr("Listing"),
            ListingDataDoc(Absent, JNull, JNull,
                           JArr(<<Thing(JStr("t1"), CommentDoc("c1"))>>))),
      Thing(JStr("Listing"),
            ListingDataDoc(Absent, JNull, JNull, ChildrenOf(<<4>>))),
      Thing(JStr("Listing"),
            ListingDataDoc(Absent, JNull, JNull,
                           JArr(<<Thing(JStr("t1"), Without(CommentDoc("c1"), "body"))>>))),
      Thing(JStr("Listing"), ListingDataDoc(Absent, JNull, JNull, JArr(<<>>))),
      JNull>>

PairSeqs == UNION {[1..n -> 1..Len(PairDocs)] : n \in 0..MaxPair}

(***************************************************************************)
(* Initial states: the document and the type asked for.                    *)
(***************************************************************************)
\* a post, alone or as the one child of a listing, one member of the post
\* dropped or changed
InitLeaf ==
    \E f \in FieldNames(SubmissionFields) \cup {"from_kind"} :
      \E i \in 0..Len(Values) :
        \/ /\ target = "Submission"
           /\ json = Perturbed(SubmissionDoc("a"), f, i)
        \/ /\ target = "Listing"
           /\ json = Thing(JStr("Listing"),
                        ListingDataDoc(Absent, JNull, JStr("t3_abc"),
                           JArr(<<Thing(JStr("t3"),
                                        Perturbed(SubmissionDoc("a"), f, i))>>)))

\* a subreddit's about record, one member dropped or changed
InitAbout ==
    \E f \in FieldNames(SubredditAboutDataFields) \cup {"header_img"} :
      \E i \in 0..Len(Values) :
        \E k \in {2, 4} :
          /\ target = "SubredditAbout"
          /\ json = Thing(KindValues[k], Perturbed(AboutDoc, f, i))

\* a listing: its cursors, its children and the order of its members vary
InitListing ==
    \E m \in 1..Len(ModhashValues), b \in 1..Len(BeforeValues),
       a \in 1..Len(AfterValues), rev \in BOOLEAN :
      \E c \in ChildSeqs \cup {<<0>>, <<0, 0>>} :
        LET children == IF c = <<0>> THEN Absent
                        ELSE IF c = <<0, 0>> THEN JNull
                        ELSE ChildrenOf(c)
            d == ListingDataDoc(ModhashValues[m], BeforeValues[b],
                                AfterValues[a], children)
        IN /\ target = "Listing"
           /\ json = Thing(JStr("Listing"), IF rev THEN Reversed(d) ELSE d)

\* an envelope: `kind` and `data` vary, in either order
InitEnvelope ==
    \E k \in 1..Len(KindValues), rev \in BOOLEAN, tg \in {"Listing", "SubredditAbout"} :
      \E d \in {Absent, JInt(7), EmptyObj, AboutDoc,
                ListingDataDoc(Absent, JNull, JNull, ChildrenOf(<<1, 2>>)),
                ListingDataDoc(Absent, JNull, JNull, ChildrenOf(<<1, 3>>))} :
        /\ target = tg
        /\ json = (IF rev THEN Reversed(Thing(KindValues[k], d))
                   ELSE Thing(KindValues[k], d))

\* a comment response: an array of listings
InitPair ==
    \E p \in PairSeqs :
      /\ target = "CommentResponse"
      /\ json = JArr([i \in 1..Len(p) |-> PairDocs[p[i]]])

Init ==
    /\ pc = "start"
    /\ result = Pending
    /\ \/ InitLeaf
       \/ InitAbout
       \/ InitListing
       \/ InitEnvelope
       \/ InitPair

(***************************************************************************)
(* The decodes.                                                            *)
(***************************************************************************)
ReadSubmission ==
    /\ pc = "start"
    /\ target = "Submission"
    /\ result' = DecodeSubmission(json)
    /\ pc' = "done"
    /\ UNCHANGED <<json, target>>

ReadListing ==
    /\ pc = "start"
    /\ target = "Listing"
    /\ result' = DecodeListing(json)
    /\ pc' = "done"
    /\ UNCHANGED <<json, target>>

ReadSubredditAbout ==
    /\ pc = "start"
    /\ target = "SubredditAbout"
    /\ result' = DecodeSubredditAbout(json)
    /\ pc' = "done"
    /\ UNCHANGED <<json, target>>

ReadCommentResponse ==
    /\ pc = "start"
    /\ target = "CommentResponse"
    /\ result' = DecodeCommentResponse(json)
    /\ pc' = "done"
    /\ UNCHANGED <<json, target>>

Next ==
    \/ ReadSubmission
    \/ ReadListing
    \/ ReadSubredditAbout
    \/ ReadCommentResponse

Spec == Init /\ [][Next]_vars

(***************************************************************************)
(* Properties.                                                             *)
(***************************************************************************)
Done == pc = "done"

\* j is `false` or a number, the two documented shapes of `edited`
FalseOrNumber(j) == (j.t = "bool" /\ ~j.b) \/ j.t = "num"

\* the post in a document decoded as Submission, when every member of it
\* other than `edited` decodes
PostWithEdited ==
    /\ Done
    /\ target = "Submission"
    /\ Has(json, "edited")
    /\ Decode(Submission, With(json, "edited", JBool(FALSE))).ok

\* C1 as stated: `false` decodes to NotEdited (the raw false), a number t to
\* EditedAt(t) (the raw number), and every other value of `edited` makes the
\* decode of the Submission fail.
C1_EditedRejectsOtherShapes ==
    PostWithEdited =>
        IF FalseOrNumber(json.v["edited"])
        THEN result.ok /\ result.v["edited"] = json.v["edited"]
        ELSE ~result.ok

\* C1 as amended: the decode of a Submission succeeds for every JSON value of
\* `edited`: `false` is kept as false, a number t as t, and any other value
\* (true, a string, an object, an array, null) is accepted too and keeps its
\* JSON type; `true` is never turned into a number.
C1_EditedAcceptsEveryValue ==
    PostWithEdited =>
        /\ result.ok
        /\ result.v["edited"].t = json.v["edited"].t
        /\ (FalseOrNumber(json.v["edited"]) => result.v["edited"] = json.v["edited"])
        /\ (json.v["edited"] = JBool(TRUE) => result.v["edited"] = JBool(TRUE))

\* C1 witness: a post whose `edited` is true has been decoded, successfully.
C1_Witness ==
    /\ PostWithEdited
    /\ json.v["edited"] = JBool(TRUE)
    /\ result.ok
    /\ result.v["edited"] = JBool(TRUE)

\* the posts of a decoded listing and the members they were decoded from
ListingDecoded == Done /\ target = "Listing" /\ result.ok
ChildrenIn(j) == j.v["data"].v["children"].a
ChildrenOut(r) == r.v["data"]["children"]

\* C2 as stated: in a decoded Submission, `edited` is NotEdited (false) or
\* EditedAt(t) (a number), never another raw JSON value.
C2_EditedIsTwoVariant ==
    /\ (Done /\ target = "Submission" /\ result.ok
            => FalseOrNumber(result.v["edited"]))
    /\ (ListingDecoded =>
            \A i \in 1..Len(ChildrenOut(result)) :
                FalseOrNumber(ChildrenOut(result)[i]["data"]["edited"]))

\* C2 as amended: in a decoded Submission, `edited` is the raw JSON value of
\* the document, unchanged; it is false or a number exactly when the document
\* holds false or a number there.
C2_EditedIsRawValue ==
    /\ (Done /\ target = "Submission" /\ result.ok
            => result.v["edited"] = json.v["edited"])
    /\ (ListingDecoded =>
            \A i \in 1..Len(ChildrenOut(result)) :
                ChildrenOut(result)[i]["data"]["edited"]
                    = ChildrenIn(json)[i].v["data"].v["edited"])

\* C2 witness: a listing has been decoded whose post exposes the raw string
\* "1609459200" as `edited`.
C2_Witness ==
    /\ ListingDecoded
    /\ Len(ChildrenOut(result)) = 1
    /\ ChildrenOut(result)[1]["data"]["edited"] = JStr("1609459200")

\* an envelope has been decoded: a JSON object read as BasicThing<Payload>
EnvelopeRead ==
    Done /\ target \in {"Listing", "SubredditAbout"} /\ json.t = "obj"
Payload == IF target = "Listing" THEN ListingData(Submission) ELSE SubredditAboutData
KindDecodes == Has(json, "kind") => json.v["kind"].t = "str"
DataDecodes == Has(json, "data") => Decode(Payload, json.v["data"]).ok

\* C3: an envelope whose `kind` is a string and whose `data` decodes as the
\* payload type decodes; the decoded kind is the input string, whatever it is,
\* and the decoded data is the payload type's own decode of `data`.
C3_EnvelopeKeepsKindAndData ==
    EnvelopeRead /\ Has(json, "kind") /\ json.v["kind"].t = "str"
                 /\ Has(json, "data") /\ Decode(Payload, json.v["data"]).ok
        => /\ result.ok
           /\ result.v["kind"] = json.v["kind"].s
           /\ result.v["data"] = Decode(Payload, json.v["data"]).v

\* C3 witness: a listing of two posts wrapped with the kind "t5", which is
\* not a listing's kind, has been decoded as Listing with kind "t5".
C3_Witness ==
    /\ EnvelopeRead
    /\ target = "Listing"
    /\ Has(json, "kind")
    /\ json.v["kind"] = JStr("t5")
    /\ result.ok
    /\ result.v["kind"] = "t5"
    /\ Len(result.v["data"]["children"]) = 2

WellFormedListing(j) ==
    /\ Has(j, "data")
    /\ Has(j.v["data"], "children")
    /\ j.v["data"].v["children"].t = "arr"

\* the members of the listing other than `children` decode
OthersDecode(j) ==
    /\ Has(j, "kind") /\ j.v["kind"].t = "str"
    /\ \A c \in {"modhash", "before", "after"} :
          Has(j.v["data"], c) => j.v["data"].v[c].t \in {"null", "str"}

ListingRead == Done /\ target = "Listing" /\ json.t = "obj"

\* C5: the children of a decoded listing are as many as the elements of the
\* source array, and the i-th child is the decode of the i-th element.
C5_ChildrenKeepOrder ==
    ListingDecoded =>
        /\ Len(ChildrenOut(result)) = Len(ChildrenIn(json))
        /\ \A i \in 1..Len(ChildrenIn(json)) :
              LET r == Decode(BasicThing(Submission), ChildrenIn(json)[i])
              IN r.ok /\ ChildrenOut(result)[i] = r.v

\* C5 witness: the listing of the posts a, b, a has been decoded, in that order.
C5_Witness ==
    /\ ListingDecoded
    /\ Len(ChildrenOut(result)) = 3
    /\ [i \in 1..3 |-> ChildrenOut(result)[i]["data"]["id"]] = <<"a", "b", "a">>

\* the positions of the children that fail to decode
FailingChildren(j) ==
    {i \in 1..Len(ChildrenIn(j)) :
        ~Decode(BasicThing(Submission), ChildrenIn(j)[i]).ok}

\* C6 as stated: a listing with a child that fails to decode fails with a
\* ChildDecodeFailure.
C6_ChildDecodeFailure ==
    ListingRead /\ WellFormedListing(json) /\ FailingChildren(json) # {}
        => ~result.ok /\ result.k = "ChildDecodeFailure"

\* C6 as amended: a listing with a child that fails to decode fails as a
\* whole, and no listing of the children before it is returned; the error is
\* the failing child's own error, as it is, without a wrapper and without the
\* child's index (the first failing child's, when the other members of the
\* listing decode).
C6_ChildErrorUnwrapped ==
    ListingRead /\ WellFormedListing(json) /\ FailingChildren(json) # {}
        => /\ ~result.ok
           /\ result.k \in {"missing_field", "invalid_type", "invalid_value"}
           /\ (OthersDecode(json)
                 => result = Decode(BasicThing(Submission),
                                    ChildrenIn(json)[Min(FailingChildren(json))]))

\* C6 witness: the listing of the posts a, b and a third post whose `gilded`
\* is a string has been refused with the error of that third post.
C6_Witness ==
    /\ ListingRead
    /\ WellFormedListing(json)
    /\ FailingChildren(json) = {3}
    /\ result = Err("invalid_type", "u64")

\* C7: a listing without `children` fails to decode; a listing whose
\* `children` is the empty array decodes to the empty sequence; a listing
\* whose `after` is null decodes with `after` None.
C7_ChildrenRequired ==
    ListingRead /\ Has(json, "data") /\ json.v["data"].t = "obj"
        => /\ (~Has(json.v["data"], "children") => ~result.ok)
           /\ (WellFormedListing(json) /\ ChildrenIn(json) = <<>> /\ OthersDecode(json)
                 => result.ok /\ ChildrenOut(result) = <<>>)
           /\ (result.ok /\ Has(json.v["data"], "after")
                         /\ json.v["data"].v["after"] = JNull
                 => result.v["data"]["after"] = None)

\* C7 witness: a listing with `children` = [] and `after` = null has been
\* decoded to no children and no cursor.
C7_Witness ==
    /\ ListingDecoded
    /\ ChildrenIn(json) = <<>>
    /\ Has(json.v["data"], "after")
    /\ json.v["data"].v["after"] = JNull
    /\ ChildrenOut(result) = <<>>
    /\ result.v["data"]["after"] = None

\* C8: in a decoded listing, a cursor that is a string c decodes to Some(c),
\* unchanged, whatever the children are, and a cursor that is null decodes to
\* None.
C8_CursorsVerbatim ==
    ListingDecoded =>
        \A c \in {"before", "after"} :
            LET d == json.v["data"]
            IN /\ (Has(d, c) /\ d.v[c].t = "str"
                     => result.v["data"][c] = Some(d.v[c].s))
               /\ (Has(d, c) /\ d.v[c].t = "null"
                     => result.v["data"][c] = None)

\* C8 witness: a listing with no children and `after` = "t3_abc" has been
\* decoded with `after` = Some("t3_abc").
C8_Witness ==
    /\ ListingDecoded
    /\ ChildrenOut(result) = <<>>
    /\ result.v["data"]["after"] = Some("t3_abc")

\* the law of a leaf record's fields, for the object D decoded into `decoded`
\* (when ok): a required field that D lacks makes the decode fail; a field
\* that D lacks is None in the decoded record; an optional field that D holds
\* with a value other than null is Some, which is not None
LeafLaw(fields, D, ok, decoded) ==
    \A i \in 1..Len(fields) :
        LET f == fields[i][1]
            T == fields[i][2]
        IN /\ (~Has(D, f) /\ T.c # "Option" => ~ok)
           /\ (ok /\ ~Has(D, f) => decoded[f] = None)
           /\ (ok /\ Has(D, f) /\ D.v[f].t # "null" /\ T.c = "Option"
                 => decoded[f].some /\ decoded[f] # None)

\* C9: every field of Submission and of SubredditAboutData is required (its
\* absence fails the decode) or optional (its absence decodes to None, which
\* no value the server sends decodes to: "" decodes to Some(""), 0 to Some(0),
\* false to Some(false)); no absent field is given a default value.
C9_RequiredOrOptional ==
    /\ (Done /\ target = "Submission" /\ json.t = "obj"
          => LeafLaw(SubmissionFields, json, result.ok, result.v))
    /\ (Done /\ target = "SubredditAbout" /\ json.t = "obj"
             /\ Has(json, "data") /\ json.v["data"].t = "obj"
          => LeafLaw(SubredditAboutDataFields, json.v["data"], result.ok,
                     IF result.ok THEN result.v["data"] ELSE <<>>))

\* C9 witness: a post without `num_reports` has been decoded, with
\* `num_reports` None.
C9_Witness ==
    /\ Done
    /\ target = "Submission"
    /\ ~Has(json, "num_reports")
    /\ result.ok
    /\ result.v["num_reports"] = None

PairRead == Done /\ target = "CommentResponse"

\* C10: a comment response decodes exactly when the document is an array of
\* two elements of which the first decodes as Listing and the second as
\* CommentListing, and the decoded pair holds both; in every other case the
\* decode fails and returns no listing.
C10_BothOrNothing ==
    PairRead =>
        /\ result.ok <=> /\ json.t = "arr"
                         /\ Len(json.a) = 2
                         /\ Decode(Listing, json.a[1]).ok
                         /\ Decode(CommentListing, json.a[2]).ok
        /\ (result.ok => result.v = <<Decode(Listing, json.a[1]).v,
                                      Decode(CommentListing, json.a[2]).v>>)

\* C10 witness: a pair whose post listing decodes and whose comment listing
\* does not has been refused.
C10_Witness ==
    /\ PairRead
    /\ json.t = "arr"
    /\ Len(json.a) = 2
    /\ Decode(Listing, json.a[1]).ok
    /\ ~Decode(CommentListing, json.a[2]).ok
    /\ ~result.ok

====
